---- MODULE Spec2Model ----
(***************************************************************************)
(* build-n-run: the supervision loop of src/main.rs.                       *)
(*                                                                         *)
(* main() builds the binary with cargo, on success kills and reaps the     *)
(* previous child and spawns the fresh executable, then blocks on the      *)
(* watcher channel until a meaningful event arrives, drains the channel    *)
(* and starts over.  The notify watcher thread is the only producer of the *)
(* channel; the supervised children run and exit on their own.             *)
(***************************************************************************)
EXTENDS Naturals, Integers, Sequences, FiniteSets, TLC

VARIABLES
    pc,          \* position of main(): build, building, kill, wait, run, recv, drain, panicked
    proc,        \* `proc: Option<Child>` (0 = None, i = handle of children[i])
    child,       \* `child` bound by `if let Some(mut child) = proc.take()` (0 = out of scope)
    children,    \* every process spawned by run(), in spawn order
    chan,        \* events buffered in the mpsc channel (tx -> rx)
    closed,      \* TRUE once the sending half (watcher thread) is gone
    sent,        \* number of events the watcher thread has sent
    builds,      \* number of `cargo build` invocations started
    recvM,       \* number of times rx.recv() returned an event that broke the inner loop
    op,          \* label of the step taken last
    lastBuild,   \* outcome of the latest build: none, ok, fail, used (= ok and already spawned from)
    wake,        \* TRUE from a breaking rx.recv() until the next build starts
    owed,        \* TRUE from the send of a breaking event until the next build starts
    spawnFailed, \* TRUE from a failed spawn until the next spawn attempt
    bnr,         \* `build_n_run`: the parsed command line, never changed
    args,        \* the argument vector of the latest `cargo` invocation
    exe,         \* the path of the latest spawn attempt
    mark         \* the value of builds when a build cycle last ended with a breaking event
                 \* buffered, 0 once an event has been sent since

vars ==
    <<pc, proc, child, children, chan, closed, sent, builds, recvM, op,
      lastBuild, wake, owed, spawnFailed, bnr, args, exe, mark>>

(***************************************************************************)
(* Bounds                                                                  *)
(***************************************************************************)
\* number of events the watcher thread sends in one run of the model
MaxSent ==
    3

\* number of events the watcher thread sends when it draws from every DebouncedEvent
MaxClassified ==
    2

(***************************************************************************)
(* Events and the ignore matcher                                           *)
(***************************************************************************)
\* paths that events carry; "" stands for "no path"
Paths ==
    {"src/main.rs", "target/debug/app", "keep.rs"}

\* gi.matched(&f, false): None, Ignore or Whitelist
gi_matched(f) ==
    CASE f = "target/debug/app" -> "Ignore"
      [] f = "keep.rs" -> "Whitelist"
      [] OTHER -> "None"

\* variant of is_ignore: a whitelisted path counts as ignored (!is_none())
is_ignore_NotNone(m) ==
    m # "None"

\* Match::is_ignore()
is_ignore(m) ==
    m = "Ignore"

\* the variants of notify::DebouncedEvent that carry one path
PathKinds ==
    {"NoticeWrite", "NoticeRemove", "Create", "Write", "Chmod", "Remove"}

Ev(k, old, f) ==
    [kind |-> k, old |-> old, f |-> f]

\* every DebouncedEvent over Paths
AllEvents ==
    {Ev(k, "", f) : k \in PathKinds, f \in Paths}
        \cup {Ev("Rename", o, f) : o \in Paths, f \in Paths}
        \cup {Ev("Rescan", "", ""), Ev("Error", "", "")}

\* the events the watcher thread sends in the model of the loop
WatcherEvents ==
    { Ev("Write", "", "src/main.rs"),
      Ev("Write", "", "target/debug/app"),
      Ev("Create", "", "keep.rs"),
      Ev("Remove", "", "target/debug/app"),
      Ev("Rename", "src/main.rs", "target/debug/app"),
      Ev("Rename", "target/debug/app", "src/main.rs"),
      Ev("Chmod", "", "src/main.rs"),
      Ev("NoticeWrite", "", "src/main.rs"),
      Ev("Rescan", "", ""),
      Ev("Error", "", "") }

\* variant of Breaks: the Rename arm tests the old path
Breaks_RenameOld(e) ==
    CASE e.kind = "Write" -> ~is_ignore(gi_matched(e.f))
      [] e.kind = "Rename" -> ~is_ignore(gi_matched(e.old))
      [] e.kind = "Remove" -> ~is_ignore(gi_matched(e.f))
      [] e.kind = "Create" -> ~is_ignore(gi_matched(e.f))
      [] e.kind = "Rescan" -> TRUE
      [] OTHER -> FALSE

\* the arms of `match rx.recv().unwrap()`: TRUE = break, FALSE = continue
Breaks(e) ==
    CASE e.kind = "Write" -> ~is_ignore(gi_matched(e.f))
      [] e.kind = "Rename" -> ~is_ignore(gi_matched(e.f))
      [] e.kind = "Remove" -> ~is_ignore(gi_matched(e.f))
      [] e.kind = "Create" -> ~is_ignore(gi_matched(e.f))
      [] e.kind = "Rescan" -> TRUE
      [] OTHER -> FALSE

(***************************************************************************)
(* Children                                                                *)
(***************************************************************************)
\* a freshly spawned process: running, kill() not called on its handle yet
NewChild ==
    [st |-> "running", kill |-> "no"]

\* the supervised children that are alive
Alive ==
    {i \in DOMAIN children : children[i].st = "running"}

(***************************************************************************)
(* The configuration                                                       *)
(***************************************************************************)
\* number of Rescan events the watcher thread sends when main() starts from any configuration
MaxRescans ==
    2

\* the largest number of -v occurrences on the command line
MaxVerbose ==
    2

\* Option<T>: <<>> is None, <<v>> is Some(v); a path is a sequence of pieces
\* in which every separator "/" is a piece of its own
DefaultConfig ==
    [ watch |-> <<>>, quiet |-> FALSE, bin |-> "app", package |-> <<>>, jobs |-> <<>>,
      release |-> FALSE, profile |-> <<>>, features |-> <<>>, all_features |-> FALSE,
      no_default_features |-> FALSE, target |-> <<>>, target_dir |-> <<>>,
      manifest_path |-> <<>>, message_format_path |-> <<>>, verbose |-> 0,
      color |-> <<>>, frozen |-> FALSE, locked |-> FALSE, offline |-> FALSE,
      args |-> <<>> ]

\* single options given on the command line: <<field, value>>
ConfigOptions ==
    { <<"watch", <<"src">>>>, <<"quiet", TRUE>>, <<"bin", "srv">>, <<"package", <<"pkg">>>>,
      <<"jobs", <<4>>>>, <<"jobs", <<16>>>>, <<"jobs", <<-1>>>>, <<"release", TRUE>>,
      <<"profile", <<"bench">>>>, <<"features", <<"a">>>>, <<"features", <<"a", "b">>>>,
      <<"all_features", TRUE>>, <<"no_default_features", TRUE>>,
      <<"target", <<"wasm32">>>>, <<"target_dir", << <<"out">> >> >>,
      <<"target_dir", << <<"out", "/">> >> >>, <<"manifest_path", <<"Cargo.toml">>>>,
      <<"message_format_path", <<"json">>>>, <<"color", <<"Auto">>>>,
      <<"color", <<"Always">>>>, <<"color", <<"Never">>>>, <<"frozen", TRUE>>,
      <<"locked", TRUE>>, <<"offline", TRUE>>, <<"args", <<"--port", "80">>>> }
        \cup { <<"verbose", n>> : n \in 1..MaxVerbose }

WithOption(c, o) ==
    [c EXCEPT ![o[1]] = o[2]]

\* the command lines of the model: the default with up to two options set
Configs ==
    { WithOption(WithOption(DefaultConfig, o1), o2) : o1 \in ConfigOptions, o2 \in ConfigOptions }

Digit(d) ==
    <<"0", "1", "2", "3", "4", "5", "6", "7", "8", "9">>[d + 1]

RECURSIVE Decimal(_)
Decimal(n) ==
    IF n < 10 THEN <<Digit(n)>> ELSE Decimal(n \div 10) \o <<Digit(n % 10)>>

\* format!("{}", jobs) of an i32
Format(n) ==
    IF n < 0 THEN <<"-">> \o Decimal(0 - n) ELSE Decimal(n)

\* `color.into()` under #[strum(serialize_all = "lowercase")]
ColorStr(c) ==
    CASE c = "Auto" -> "auto"
      [] c = "Always" -> "always"
      [] c = "Never" -> "never"

\* `if flag { args.push(name) }`
Flag(set, name) ==
    IF set THEN << <<name>> >> ELSE <<>>

\* `if let Some(v) = opt { args.push(prefix + v) }`
Prefixed(prefix, opt) ==
    IF opt # <<>> THEN << <<prefix, opt[1]>> >> ELSE <<>>

\* `for v in vec { args.push(prefix + v) }`
PrefixedEach(prefix, vec) ==
    [i \in 1..Len(vec) |-> <<prefix, vec[i]>>]

\* variant of BuildArgs: --bin is pushed last
BuildArgs_BinLast(b) ==
    << <<"build">> >>
        \o Flag(b.quiet, "--quiet")
        \o Prefixed("--package=", b.package)
        \o (IF b.jobs # <<>> THEN << <<"--jobs">>, Format(b.jobs[1]) >> ELSE <<>>)
        \o Flag(b.release, "--release")
        \o Prefixed("--profile=", b.profile)
        \o PrefixedEach("--features=", b.features)
        \o Flag(b.all_features, "--all-features")
        \o Flag(b.no_default_features, "--no-default-features")
        \o Prefixed("--target=", b.target)
        \o Prefixed("--manifest-path=", b.manifest_path)
        \o PrefixedEach("--message-format-path=", b.message_format_path)
        \o [i \in 1..b.verbose |-> <<"-v">>]
        \o (IF b.color # <<>> THEN << <<"--color=", ColorStr(b.color[1])>> >> ELSE <<>>)
        \o Flag(b.frozen, "--frozen")
        \o Flag(b.locked, "--locked")
        \o Flag(b.offline, "--offline")
        \o << <<"--bin=", b.bin>> >>

\* build(): the vector handed to Command::new("cargo").args(..); a token is
\* the sequence of the pieces it was concatenated from
BuildArgs(b) ==
    << <<"build">> >>
        \o Flag(b.quiet, "--quiet")
        \o << <<"--bin=", b.bin>> >>
        \o Prefixed("--package=", b.package)
        \o (IF b.jobs # <<>> THEN << <<"--jobs">>, Format(b.jobs[1]) >> ELSE <<>>)
        \o Flag(b.release, "--release")
        \o Prefixed("--profile=", b.profile)
        \o PrefixedEach("--features=", b.features)
        \o Flag(b.all_features, "--all-features")
        \o Flag(b.no_default_features, "--no-default-features")
        \o Prefixed("--target=", b.target)
        \o Prefixed("--manifest-path=", b.manifest_path)
        \o PrefixedEach("--message-format-path=", b.message_format_path)
        \o [i \in 1..b.verbose |-> <<"-v">>]
        \o (IF b.color # <<>> THEN << <<"--color=", ColorStr(b.color[1])>> >> ELSE <<>>)
        \o Flag(b.frozen, "--frozen")
        \o Flag(b.locked, "--locked")
        \o Flag(b.offline, "--offline")

\* run(): the OsString that target_dir, the mode, "/" and bin are pushed onto
ExePath(b) ==
    (IF b.target_dir # <<>> THEN b.target_dir[1] ELSE <<"target", "/">>)
        \o (IF b.release THEN <<"release">> ELSE <<"debug">>)
        \o <<"/">>
        \o <<b.bin>>

\* the value of mark when the loop enters rx.recv() at the end of a build cycle
MarkAtCycleEnd ==
    IF \E i \in DOMAIN chan : Breaks(chan[i]) THEN builds ELSE mark

\* variant of Init: main() waits for an event before the first build
Init_StartsWaiting ==
    /\ pc = "recv"
    /\ proc = 0
    /\ child = 0
    /\ children = <<>>
    /\ chan = <<>>
    /\ closed = FALSE
    /\ sent = 0
    /\ builds = 0
    /\ recvM = 0
    /\ op = "init"
    /\ lastBuild = "none"
    /\ wake = FALSE
    /\ owed = FALSE
    /\ spawnFailed = FALSE
    /\ bnr = DefaultConfig
    /\ args = <<>>
    /\ exe = <<>>
    /\ mark = 0

Init ==
    /\ pc = "build"
    /\ proc = 0
    /\ child = 0
    /\ children = <<>>
    /\ chan = <<>>
    /\ closed = FALSE
    /\ sent = 0
    /\ builds = 0
    /\ recvM = 0
    /\ op = "init"
    /\ lastBuild = "none"
    /\ wake = FALSE
    /\ owed = FALSE
    /\ spawnFailed = FALSE
    /\ bnr = DefaultConfig
    /\ args = <<>>
    /\ exe = <<>>
    /\ mark = 0

(***************************************************************************)
(* main(): the outer loop                                                  *)
(***************************************************************************)
\* build(): Command::new("cargo").args(&args).status() is called
BuildStart ==
    /\ pc = "build"
    /\ pc' = "building"
    /\ builds' = builds + 1
    /\ wake' = FALSE
    /\ owed' = FALSE
    /\ op' = "build_start"
    /\ args' = BuildArgs(bnr)
    /\ UNCHANGED <<proc, child, children, chan, closed, sent, recvM, lastBuild, spawnFailed,
                   bnr, exe, mark>>

\* variant of BuildLaunchError: the launch error counts as a failed build
BuildLaunchError_AsFailure ==
    /\ pc = "building"
    /\ pc' = "recv"
    /\ op' = "build_panic"
    /\ UNCHANGED <<proc, child, children, chan, closed, sent, builds, recvM,
                   lastBuild, wake, owed, spawnFailed,
                   bnr, args, exe, mark>>

\* status() is Err: unwrap() panics
BuildLaunchError ==
    /\ pc = "building"
    /\ pc' = "panicked"
    /\ op' = "build_panic"
    /\ UNCHANGED <<proc, child, children, chan, closed, sent, builds, recvM,
                   lastBuild, wake, owed, spawnFailed,
                   bnr, args, exe, mark>>

\* variant of BuildFailure: the executable is spawned although the build failed
BuildFailure_Spawns ==
    /\ pc = "building"
    /\ pc' = "run"
    /\ lastBuild' = "fail"
    /\ op' = "build_fail"
    /\ mark' = MarkAtCycleEnd
    /\ UNCHANGED <<proc, child, children, chan, closed, sent, builds, recvM,
                   wake, owed, spawnFailed,
                   bnr, args, exe>>

\* variant of BuildFailure: the previous child is taken and recycled although the build failed
BuildFailure_Recycles ==
    /\ pc = "building"
    /\ lastBuild' = "fail"
    /\ op' = "build_fail"
    /\ mark' = MarkAtCycleEnd
    /\ proc' = 0
    /\ child' = proc
    /\ pc' = IF proc # 0 THEN "kill" ELSE "recv"
    /\ UNCHANGED <<children, chan, closed, sent, builds, recvM, wake, owed, spawnFailed,
                   bnr, args, exe>>

\* build() returns false: the `if` body is skipped, the inner loop starts
BuildFailure ==
    /\ pc = "building"
    /\ pc' = "recv"
    /\ lastBuild' = "fail"
    /\ op' = "build_fail"
    /\ mark' = MarkAtCycleEnd
    /\ UNCHANGED <<proc, child, children, chan, closed, sent, builds, recvM,
                   wake, owed, spawnFailed,
                   bnr, args, exe>>

\* variant of BuildSuccess: the previous child is dropped without kill() and wait()
BuildSuccess_NoRecycle ==
    /\ pc = "building"
    /\ lastBuild' = "ok"
    /\ op' = "build_ok"
    /\ proc' = 0
    /\ child' = 0
    /\ pc' = "run"
    /\ UNCHANGED <<children, chan, closed, sent, builds, recvM, wake, owed, spawnFailed,
                   bnr, args, exe, mark>>

\* build() returns true: `if let Some(mut child) = proc.take()`
BuildSuccess ==
    /\ pc = "building"
    /\ lastBuild' = "ok"
    /\ op' = "build_ok"
    /\ proc' = 0
    /\ child' = proc
    /\ pc' = IF proc # 0 THEN "kill" ELSE "run"
    /\ UNCHANGED <<children, chan, closed, sent, builds, recvM, wake, owed, spawnFailed,
                   bnr, args, exe, mark>>

\* variant of Kill: child.wait() is left out
Kill_NoWait ==
    /\ pc = "kill"
    /\ \E r \in {"ok", "err"} :
          /\ children' = [children EXCEPT ![child].kill = r]
          /\ op' = IF r = "ok" THEN "kill_ok" ELSE "kill_err"
    /\ child' = 0
    /\ pc' = "run"
    /\ UNCHANGED <<proc, chan, closed, sent, builds, recvM, lastBuild,
                   wake, owed, spawnFailed,
                   bnr, args, exe, mark>>

\* variant of Kill: the error of kill() is unwrapped
Kill_ErrPanics ==
    /\ pc = "kill"
    /\ \E r \in {"ok", "err"} :
          /\ children' = [children EXCEPT ![child].kill = r]
          /\ op' = IF r = "ok" THEN "kill_ok" ELSE "kill_err"
          /\ pc' = IF r = "ok" THEN "wait" ELSE "panicked"
    /\ UNCHANGED <<proc, child, chan, closed, sent, builds, recvM, lastBuild,
                   wake, owed, spawnFailed,
                   bnr, args, exe, mark>>

\* `let _ = child.kill();` the signal is sent (Ok) or not (Err), the result is dropped
Kill ==
    /\ pc = "kill"
    /\ \E r \in {"ok", "err"} :
          /\ children' = [children EXCEPT ![child].kill = r]
          /\ op' = IF r = "ok" THEN "kill_ok" ELSE "kill_err"
    /\ pc' = "wait"
    /\ UNCHANGED <<proc, child, chan, closed, sent, builds, recvM, lastBuild,
                   wake, owed, spawnFailed,
                   bnr, args, exe, mark>>

\* `let _ = child.wait();` returns (Ok or Err) once the process has exited; the result is dropped
Wait ==
    /\ pc = "wait"
    /\ children[child].st = "exited"
    /\ children' = [children EXCEPT ![child].st = "reaped"]
    /\ child' = 0
    /\ pc' = "run"
    /\ op' \in {"wait", "wait_err"}
    /\ UNCHANGED <<proc, chan, closed, sent, builds, recvM, lastBuild, wake, owed, spawnFailed,
                   bnr, args, exe, mark>>

\* run(): spawn() is Ok, `proc = Some(child)`
SpawnOk ==
    /\ pc = "run"
    /\ children' = Append(children, NewChild)
    /\ proc' = Len(children) + 1
    /\ pc' = "recv"
    /\ lastBuild' = "used"
    /\ spawnFailed' = FALSE
    /\ op' = "spawn_ok"
    /\ exe' = ExePath(bnr)
    /\ mark' = MarkAtCycleEnd
    /\ UNCHANGED <<child, chan, closed, sent, builds, recvM, wake, owed,
                   bnr, args>>

\* variant of SpawnErr: the build is repeated at once after a failed spawn
SpawnErr_Rebuilds ==
    /\ pc = "run"
    /\ proc' = 0
    /\ pc' = "build"
    /\ lastBuild' = "used"
    /\ spawnFailed' = TRUE
    /\ op' = "spawn_err"
    /\ exe' = ExePath(bnr)
    /\ mark' = MarkAtCycleEnd
    /\ UNCHANGED <<child, children, chan, closed, sent, builds, recvM, wake, owed,
                   bnr, args>>

\* variant of SpawnErr: the spawn error is unwrapped
SpawnErr_Panics ==
    /\ pc = "run"
    /\ proc' = 0
    /\ pc' = "panicked"
    /\ lastBuild' = "used"
    /\ spawnFailed' = TRUE
    /\ op' = "spawn_err"
    /\ exe' = ExePath(bnr)
    /\ mark' = MarkAtCycleEnd
    /\ UNCHANGED <<child, children, chan, closed, sent, builds, recvM, wake, owed,
                   bnr, args>>

\* run(): spawn() is Err, .ok() turns it into None
SpawnErr ==
    /\ pc = "run"
    /\ proc' = 0
    /\ pc' = "recv"
    /\ lastBuild' = "used"
    /\ spawnFailed' = TRUE
    /\ op' = "spawn_err"
    /\ exe' = ExePath(bnr)
    /\ mark' = MarkAtCycleEnd
    /\ UNCHANGED <<child, children, chan, closed, sent, builds, recvM, wake, owed,
                   bnr, args>>

(***************************************************************************)
(* main(): the inner loop and the drain                                    *)
(***************************************************************************)
\* variant of RecvBreak: the event is skipped like those of the `_` arm
RecvBreak_Continues ==
    /\ pc = "recv"
    /\ chan # <<>>
    /\ Breaks(Head(chan))
    /\ chan' = Tail(chan)
    /\ pc' = "recv"
    /\ op' = "recv_continue"
    /\ UNCHANGED <<proc, child, children, closed, sent, builds, recvM, lastBuild,
                   wake, owed, spawnFailed,
                   bnr, args, exe, mark>>

\* variant of RecvBreak: the build follows without the drain
RecvBreak_SkipsDrain ==
    /\ pc = "recv"
    /\ chan # <<>>
    /\ Breaks(Head(chan))
    /\ chan' = Tail(chan)
    /\ pc' = "build"
    /\ recvM' = recvM + 1
    /\ wake' = TRUE
    /\ op' = "recv_break"
    /\ UNCHANGED <<proc, child, children, closed, sent, builds, lastBuild, owed, spawnFailed,
                   bnr, args, exe, mark>>

\* rx.recv() returns an event of a breaking arm
RecvBreak ==
    /\ pc = "recv"
    /\ chan # <<>>
    /\ Breaks(Head(chan))
    /\ chan' = Tail(chan)
    /\ pc' = "drain"
    /\ recvM' = recvM + 1
    /\ wake' = TRUE
    /\ op' = "recv_break"
    /\ UNCHANGED <<proc, child, children, closed, sent, builds, lastBuild, owed, spawnFailed,
                   bnr, args, exe, mark>>

\* rx.recv() returns an event of the `_ => continue` arm
RecvContinue ==
    /\ pc = "recv"
    /\ chan # <<>>
    /\ ~Breaks(Head(chan))
    /\ chan' = Tail(chan)
    /\ pc' = "recv"
    /\ op' = "recv_continue"
    /\ UNCHANGED <<proc, child, children, closed, sent, builds, recvM, lastBuild,
                   wake, owed, spawnFailed,
                   bnr, args, exe, mark>>

\* variant of RecvDisconnected: the current child is killed and reaped before the panic
RecvDisconnected_Reaps ==
    /\ pc = "recv"
    /\ chan = <<>>
    /\ closed
    /\ pc' = "panicked"
    /\ op' = "recv_panic"
    /\ children' = [i \in DOMAIN children |->
                        IF i = proc THEN [st |-> "reaped", kill |-> "ok"] ELSE children[i]]
    /\ UNCHANGED <<proc, child, chan, closed, sent, builds, recvM,
                   lastBuild, wake, owed, spawnFailed,
                   bnr, args, exe, mark>>

\* rx.recv() is Err(RecvError): the channel is empty and disconnected, unwrap() panics
RecvDisconnected ==
    /\ pc = "recv"
    /\ chan = <<>>
    /\ closed
    /\ pc' = "panicked"
    /\ op' = "recv_panic"
    /\ UNCHANGED <<proc, child, children, chan, closed, sent, builds, recvM,
                   lastBuild, wake, owed, spawnFailed,
                   bnr, args, exe, mark>>

\* variant of DrainOne: after one drained event the loop goes back to rx.recv()
DrainOne_ToRecv ==
    /\ pc = "drain"
    /\ chan # <<>>
    /\ chan' = Tail(chan)
    /\ pc' = "recv"
    /\ op' = "drain_one"
    /\ UNCHANGED <<proc, child, children, closed, sent, builds, recvM, lastBuild,
                   wake, owed, spawnFailed,
                   bnr, args, exe, mark>>

\* variant of DrainOne: the drain stops in front of an event of a breaking arm
DrainOne_StopsAtBreaking ==
    /\ pc = "drain"
    /\ chan # <<>>
    /\ chan' = IF Breaks(Head(chan)) THEN chan ELSE Tail(chan)
    /\ pc' = IF Breaks(Head(chan)) THEN "build" ELSE "drain"
    /\ op' = "drain_one"
    /\ UNCHANGED <<proc, child, children, closed, sent, builds, recvM, lastBuild,
                   wake, owed, spawnFailed,
                   bnr, args, exe, mark>>

\* `while rx.try_recv().is_ok() {}`: one event is taken and dropped
DrainOne ==
    /\ pc = "drain"
    /\ chan # <<>>
    /\ chan' = Tail(chan)
    /\ pc' = "drain"
    /\ op' = "drain_one"
    /\ UNCHANGED <<proc, child, children, closed, sent, builds, recvM, lastBuild,
                   wake, owed, spawnFailed,
                   bnr, args, exe, mark>>

\* variant of DrainEnd: the end of the drain goes back to rx.recv()
DrainEnd_Receives ==
    /\ pc = "drain"
    /\ chan = <<>>
    /\ pc' = "recv"
    /\ op' = "drain_end"
    /\ UNCHANGED <<proc, child, children, chan, closed, sent, builds, recvM,
                   lastBuild, wake, owed, spawnFailed,
                   bnr, args, exe, mark>>

\* try_recv() is Err (Empty or Disconnected): the while loop ends, the outer loop repeats
DrainEnd ==
    /\ pc = "drain"
    /\ chan = <<>>
    /\ pc' = "build"
    /\ op' = "drain_end"
    /\ UNCHANGED <<proc, child, children, chan, closed, sent, builds, recvM,
                   lastBuild, wake, owed, spawnFailed,
                   bnr, args, exe, mark>>

\* one step of the main thread
Loop ==
    \/ BuildStart
    \/ BuildLaunchError
    \/ BuildFailure
    \/ BuildSuccess
    \/ Kill
    \/ Wait
    \/ SpawnOk
    \/ SpawnErr
    \/ RecvBreak
    \/ RecvContinue
    \/ RecvDisconnected
    \/ DrainOne
    \/ DrainEnd

(***************************************************************************)
(* The environment: watcher thread and child processes                     *)
(***************************************************************************)
\* the watcher thread sends the debounced event e on tx
Send(e) ==
    /\ pc # "panicked"
    /\ ~closed
    /\ sent < MaxSent
    /\ chan' = Append(chan, e)
    /\ sent' = sent + 1
    /\ owed' = (owed \/ Breaks(e))
    /\ op' = "send"
    /\ mark' = 0
    /\ UNCHANGED <<pc, proc, child, children, closed, builds, recvM, lastBuild,
                   wake, spawnFailed,
                   bnr, args, exe>>

\* the watcher thread sends some event
WatcherSend ==
    \E e \in WatcherEvents : Send(e)

\* the watcher thread ends and drops tx
WatcherGone ==
    /\ pc # "panicked"
    /\ ~closed
    /\ closed' = TRUE
    /\ op' = "gone"
    /\ UNCHANGED <<pc, proc, child, children, chan, sent, builds, recvM, lastBuild,
                   wake, owed, spawnFailed,
                   bnr, args, exe, mark>>

\* the process of children[i] terminates (by itself or by the signal)
ChildExit(i) ==
    /\ children[i].st = "running"
    /\ children' = [children EXCEPT ![i].st = "exited"]
    /\ op' = "exit"
    /\ UNCHANGED <<pc, proc, child, chan, closed, sent, builds, recvM, lastBuild,
                   wake, owed, spawnFailed,
                   bnr, args, exe, mark>>

\* some supervised process terminates
ChildExits ==
    \E i \in DOMAIN children : ChildExit(i)

Next ==
    \/ Loop
    \/ WatcherSend
    \/ WatcherGone
    \/ ChildExits

Spec ==
    Init /\ [][Next]_vars

TypeOK ==
    /\ pc \in {"build", "building", "kill", "wait", "run", "recv", "drain", "panicked"}
    /\ proc \in 0..Len(children)
    /\ child \in 0..Len(children)
    /\ sent \in 0..MaxSent
    /\ closed \in BOOLEAN
    /\ mark \in 0..builds

(***************************************************************************)
(* Fair scheduling: the main thread keeps running, and the process that    *)
(* child.wait() blocks on terminates.                                      *)
(***************************************************************************)
\* the process that main() is waiting for terminates
WaitedChildExit ==
    /\ pc = "wait"
    /\ ChildExit(child)

FairSpec ==
    Init /\ [][Next]_vars /\ WF_vars(Loop) /\ WF_vars(WaitedChildExit)

(***************************************************************************)
(* One burst: the watcher thread starts sending once the loop is blocked   *)
(* in rx.recv() on an empty channel and sends breaking events only.        *)
(***************************************************************************)
BurstSend ==
    \E e \in WatcherEvents :
        /\ Breaks(e)
        /\ sent = 0 => (pc = "recv" /\ chan = <<>>)
        /\ Send(e)

NextBurst ==
    \/ BuildStart
    \/ BuildLaunchError
    \/ BuildFailure
    \/ BuildSuccess
    \/ Kill
    \/ Wait
    \/ SpawnOk
    \/ SpawnErr
    \/ RecvBreak
    \/ DrainOne
    \/ DrainEnd
    \/ BurstSend
    \/ ChildExits

SpecBurst ==
    Init /\ [][NextBurst]_vars

(***************************************************************************)
(* Classification: the watcher thread sends any DebouncedEvent over Paths. *)
(***************************************************************************)
ClassifySend ==
    \E e \in AllEvents :
        /\ sent < MaxClassified
        /\ Send(e)

NextClassify ==
    \/ Loop
    \/ ClassifySend
    \/ WatcherGone
    \/ ChildExits

SpecClassify ==
    Init /\ [][NextClassify]_vars

(***************************************************************************)
(* Any command line: main() starts from any configuration of Configs and   *)
(* the watcher thread sends Rescan events.                                 *)
(***************************************************************************)
InitConfig ==
    /\ pc = "build"
    /\ proc = 0
    /\ child = 0
    /\ children = <<>>
    /\ chan = <<>>
    /\ closed = FALSE
    /\ sent = 0
    /\ builds = 0
    /\ recvM = 0
    /\ op = "init"
    /\ lastBuild = "none"
    /\ wake = FALSE
    /\ owed = FALSE
    /\ spawnFailed = FALSE
    /\ bnr \in Configs
    /\ args = <<>>
    /\ exe = <<>>
    /\ mark = 0

RescanSend ==
    /\ sent < MaxRescans
    /\ Send(Ev("Rescan", "", ""))

NextConfig ==
    \/ BuildStart
    \/ BuildLaunchError
    \/ BuildFailure
    \/ BuildSuccess
    \/ Kill
    \/ Wait
    \/ SpawnOk
    \/ SpawnErr
    \/ RecvBreak
    \/ DrainOne
    \/ DrainEnd
    \/ RescanSend
    \/ ChildExits

SpecConfig ==
    InitConfig /\ [][NextConfig]_vars

(***************************************************************************)
(* Step labels                                                             *)
(***************************************************************************)
SpawnOps ==
    {"spawn_ok", "spawn_err"}

RecvOps ==
    {"recv_break", "recv_continue", "recv_panic"}

KillOps ==
    {"kill_ok", "kill_err"}

WaitOps ==
    {"wait", "wait_err"}

LoopOps ==
    {"build_start", "build_panic", "build_fail", "build_ok", "drain_one", "drain_end"}
        \cup KillOps \cup WaitOps \cup SpawnOps \cup RecvOps

(***************************************************************************)
(* Properties                                                              *)
(***************************************************************************)
\* C1: in every reachable state at most one supervised child is alive
\* (spawned by run() and still running).
C1_AtMostOneAlive ==
    Cardinality(Alive) <= 1

\* a second child runs after the first one was recycled
C1_Witness ==
    /\ Len(children) >= 2
    /\ children[1].st = "reaped"
    /\ Cardinality(Alive) = 1

\* C2: a spawn begins only when every child spawned before has had kill()
\* called on its handle and has been reaped; wait() is only called after
\* kill(), and the step after kill() is never the spawn.
C2_KillReapBeforeSpawn ==
    [][ /\ (op' \in SpawnOps) =>
              \A i \in DOMAIN children :
                  children[i].kill # "no" /\ children[i].st = "reaped"
        /\ (op' \in WaitOps) => children[child].kill # "no"
        /\ (op \in KillOps /\ op' \in LoopOps) => op' \in WaitOps
      ]_vars

\* a spawn attempt made after the previous child was killed and reaped
C2_Witness ==
    /\ op \in SpawnOps
    /\ \E i \in DOMAIN children :
          children[i].kill = "ok" /\ children[i].st = "reaped"

\* C3: a spawn attempt happens only when the latest build succeeded and has
\* not been spawned from yet, and a build never succeeds while an earlier
\* success is still waiting for its spawn.
C3_SpawnAfterOneGoodBuild ==
    [][ /\ (op' \in SpawnOps) => lastBuild = "ok"
        /\ (op' = "build_ok") => lastBuild # "ok"
      ]_vars

\* a spawn made from the second or a later build
C3_Witness ==
    /\ op \in SpawnOps
    /\ builds >= 2
    /\ lastBuild = "used"

\* C4: the step of a failed build leaves proc, the taken child and every
\* process as they were and goes to rx.recv().
C4_FailedBuildKeepsChild ==
    [][ (op' = "build_fail") =>
            /\ proc' = proc
            /\ child' = child
            /\ children' = children
            /\ pc' = "recv"
      ]_vars

\* a build has failed while a child was running; it is still the current child
C4_Witness ==
    /\ op = "build_fail"
    /\ pc = "recv"
    /\ proc # 0
    /\ children[proc] = NewChild

\* C5: rx.recv() is never called between a breaking receive and the next
\* build start; only drain steps happen in between.
C5_BuildBeforeNextRecv ==
    [][ /\ (op' \in RecvOps) => ~wake
        /\ (wake /\ op' \in LoopOps) => op' \in {"drain_one", "drain_end", "build_start"}
      ]_vars

\* a build has started after a breaking receive that consumed every event sent
C5_Witness ==
    /\ op = "build_start"
    /\ recvM >= 1
    /\ sent >= 2
    /\ chan = <<>>

\* C6 as stated: every breaking event that is sent is followed by a build start.
C6_Original ==
    owed ~> ~owed

\* C6: every breaking event that is sent is followed by a build start,
\* unless the loop has panicked.
C6_NoEventLost ==
    owed ~> (~owed \/ pc = "panicked")

\* a third build has started, after the second event that rx.recv() returned
C6_Witness ==
    /\ op = "build_start"
    /\ builds >= 3
    /\ recvM >= 2

\* the events that C7 names as not meaningful
C7_NonMeaningful(e) ==
    \/ e.kind \in {"Create", "Write", "Remove"} /\ gi_matched(e.f) = "Ignore"
    \/ e.kind = "Rename" /\ gi_matched(e.f) = "Ignore"
    \/ e.kind \notin {"Create", "Write", "Remove", "Rename", "Rescan"}

\* C7: when rx.recv() takes a non-meaningful event, no build starts, the
\* child is left alone and the loop stays at rx.recv().
C7_NonMeaningfulKeepsWaiting ==
    [][ (pc = "recv" /\ chan # <<>> /\ C7_NonMeaningful(Head(chan)) /\ op' \in LoopOps) =>
            /\ pc' = "recv"
            /\ chan' = Tail(chan)
            /\ builds' = builds
            /\ proc' = proc
            /\ children' = children
      ]_vars

\* three non-meaningful events in a row were received and the loop still waits
\* after its only build
C7_Witness ==
    /\ op = "recv_continue"
    /\ pc = "recv"
    /\ sent = 3
    /\ chan = <<>>
    /\ builds = 1

\* C8 as stated: once a burst has been consumed, exactly one build was
\* started for it (the first build is the one of the startup).
C8_Original ==
    (sent >= 1 /\ pc = "recv" /\ chan = <<>>) => builds = 2

\* C8: once a burst of sent events has been consumed, one build was started
\* for each event that rx.recv() returned, which is at least one and at
\* most sent builds.
C8_BurstBuilds ==
    (sent >= 1 /\ pc = "recv" /\ chan = <<>>) =>
        /\ builds = 1 + recvM
        /\ recvM >= 1
        /\ recvM <= sent

\* a burst of three events that started exactly one build
C8_Witness ==
    /\ sent = 3
    /\ pc = "recv"
    /\ chan = <<>>
    /\ builds = 2

\* C9: a failed spawn leaves proc empty with every earlier child reaped and
\* goes to rx.recv(); the next successful build goes straight to the spawn,
\* and the step at the spawn is a spawn attempt.
C9_SpawnFailureRecovered ==
    [][ /\ (op' = "spawn_err") =>
              /\ pc' = "recv"
              /\ proc' = 0
              /\ \A i \in DOMAIN children' : children'[i].st = "reaped"
        /\ (spawnFailed /\ op' = "build_ok") => pc' = "run"
        /\ (pc = "run" /\ op' \in LoopOps) => op' \in SpawnOps
      ]_vars

\* the build after a failed spawn has succeeded and the spawn is tried again
C9_Witness ==
    /\ spawnFailed
    /\ op = "build_ok"
    /\ pc = "run"

\* C10: when rx.recv() takes an Error event, or the loop finds the channel
\* empty and disconnected, the loop panics.
C10_SourceErrorIsFatal ==
    [][ /\ (pc = "recv" /\ chan # <<>> /\ Head(chan).kind = "Error" /\ op' \in LoopOps) =>
              pc' = "panicked"
        /\ (pc \in {"recv", "drain"} /\ chan = <<>> /\ closed /\ op' \in LoopOps) =>
              pc' = "panicked"
      ]_vars

\* C11: the step of a failed launch of the build driver panics without
\* touching proc or any process and does not count as a build result; once
\* panicked, the loop takes no step, so it never reaches rx.recv().
C11_LaunchFailureIsFatal ==
    [][ /\ (op' = "build_panic") =>
              /\ pc' = "panicked"
              /\ proc' = proc
              /\ child' = child
              /\ children' = children
              /\ lastBuild' = lastBuild
        /\ (pc = "panicked") => (pc' = "panicked" /\ op' \notin LoopOps)
      ]_vars

\* the build driver could not be launched while a child was running
C11_Witness ==
    /\ op = "build_panic"
    /\ pc = "panicked"
    /\ builds >= 2
    /\ proc # 0
    /\ children[proc] = NewChild

\* C14: the step at kill() is a kill that leaves the process state as it is
\* and goes to wait(), whatever its result; the step at wait() goes to the
\* spawn, whatever its result; the step at the spawn is a spawn attempt.
C14_RecycleAlwaysSpawns ==
    [][ /\ (pc = "kill" /\ op' \in LoopOps) =>
              /\ op' \in KillOps
              /\ pc' = "wait"
              /\ children'[child].st = children[child].st
        /\ (pc = "wait" /\ op' \in LoopOps) =>
              /\ op' \in WaitOps
              /\ pc' = "run"
        /\ (pc = "run" /\ op' \in LoopOps) =>
              /\ op' \in SpawnOps
              /\ pc' = "recv"
      ]_vars

\* kill() failed on a child that had already exited, wait() failed too, and
\* the loop is at the spawn
C14_Witness ==
    /\ op = "wait_err"
    /\ pc = "run"
    /\ \E i \in DOMAIN children :
          children[i].kill = "err" /\ children[i].st = "reaped"

\* MeaningfulEvent as the specification defines it
C13_MeaningfulEvent(e) ==
    \/ e.kind \in {"Create", "Write", "Remove"} /\ gi_matched(e.f) # "Ignore"
    \/ e.kind = "Rename" /\ gi_matched(e.f) # "Ignore"
    \/ e.kind = "Rescan"

\* C13: whatever event rx.recv() takes, the loop leaves the inner loop (and
\* goes to the drain) exactly when the event is a MeaningfulEvent.
C13_ClassificationMatches ==
    [][ (pc = "recv" /\ chan # <<>> /\ op' \in LoopOps) =>
            /\ (pc' = "drain") = C13_MeaningfulEvent(Head(chan))
            /\ (pc' = "recv") = ~C13_MeaningfulEvent(Head(chan))
      ]_vars

\* a non-meaningful event was skipped and a Rename from an ignored to a
\* whitelisted path is the next event to be received
C13_Witness ==
    /\ op = "recv_continue"
    /\ pc = "recv"
    /\ chan = <<Ev("Rename", "target/debug/app", "keep.rs")>>
    /\ sent = 2

\* the state of the four-state machine that a position of main() stands for
C16_State(p) ==
    CASE p = "build" -> "Idle"
      [] p = "building" -> "Building"
      [] p \in {"kill", "wait", "run"} -> "Spawning"
      [] p \in {"recv", "drain"} -> "Waiting"
      [] OTHER -> "Fatal"

\* the transitions of the four-state machine, and the fatal exits
C16_Transitions ==
    { <<"Idle", "Building">>, <<"Building", "Spawning">>, <<"Building", "Waiting">>,
      <<"Spawning", "Spawning">>, <<"Spawning", "Waiting">>, <<"Waiting", "Waiting">>,
      <<"Waiting", "Idle">>, <<"Building", "Fatal">>, <<"Waiting", "Fatal">>,
      <<"Fatal", "Fatal">> }

\* C16: main() starts in Idle; every step of the loop is a transition of the
\* four-state machine (or a fatal exit), taken for the machine's reason:
\* Building -> Spawning on a successful build, Building -> Waiting on a
\* failed one, Waiting -> Idle only after a meaningful event; no event is
\* received before the first build; a failed startup build leaves no child
\* and the second build starts after exactly one meaningful event; every
\* state but the fatal one either has a next step or is blocked in
\* rx.recv() or child.wait().
C16_RefinesStateMachine ==
    /\ C16_State(pc) = "Idle"
    /\ [][ /\ (op' \in LoopOps) => <<C16_State(pc), C16_State(pc')>> \in C16_Transitions
           /\ (op' \notin LoopOps) => pc' = pc
           /\ (C16_State(pc) = "Building" /\ C16_State(pc') = "Spawning") => op' = "build_ok"
           /\ (C16_State(pc) = "Building" /\ C16_State(pc') = "Waiting") => op' = "build_fail"
           /\ (C16_State(pc) = "Waiting" /\ C16_State(pc') = "Idle") => wake
           /\ (pc = "recv" /\ pc' = "drain") => C13_MeaningfulEvent(Head(chan))
           /\ (op' \in RecvOps) => builds >= 1
           /\ (op' = "build_fail" /\ builds = 1) =>
                  (children' = <<>> /\ proc' = 0 /\ pc' = "recv")
           /\ (op' = "build_start" /\ builds = 1) => recvM = 1
         ]_vars
    /\ [](pc \in {"build", "building", "kill", "run", "drain"} => ENABLED Loop)

\* the startup build failed, no child exists, and the first meaningful event
\* has started the second build
C16_Witness ==
    /\ op = "build_start"
    /\ builds = 2
    /\ lastBuild = "fail"
    /\ children = <<>>
    /\ recvM = 1

\* C18: the number of builds started is at most 1 plus the number of
\* breaking receives, which is at most the number of events sent; only a
\* build start changes the count, the exit of a child moves nothing in the
\* loop, the only step the loop takes at rx.recv() is a receive, and no
\* process is spawned anywhere but at the spawn after a successful build.
C18_NoSpontaneousRebuild ==
    /\ [](builds <= 1 + recvM /\ recvM <= sent)
    /\ [][ /\ (builds' # builds) => (op' = "build_start" /\ builds' = builds + 1)
           /\ (op' = "build_start" /\ builds >= 1) => (wake /\ recvM = builds)
           /\ (op' = "exit") =>
                  (pc' = pc /\ proc' = proc /\ Len(children') = Len(children))
           /\ (pc = "recv" /\ op' \in LoopOps) => op' \in RecvOps
           /\ (Len(children') # Len(children)) => (op' = "spawn_ok" /\ lastBuild = "ok")
         ]_vars

\* kill() failed on the only child, which has exited by itself; the spawn
\* after the second build has failed; three events gave one rebuild and the
\* loop waits again
C18_Witness ==
    /\ pc = "recv"
    /\ chan = <<>>
    /\ sent = 3
    /\ builds = 2
    /\ recvM = 1
    /\ spawnFailed
    /\ Len(children) = 1
    /\ children[1].kill = "err"

\* C19: the panicking steps leave every process and proc as they are, and
\* after the panic no process is killed or reaped.
C19_FatalExitLeavesChild ==
    [][ /\ (op' \in {"build_panic", "recv_panic"}) =>
              (pc' = "panicked" /\ children' = children /\ proc' = proc)
        /\ (pc = "panicked") =>
              /\ proc' = proc
              /\ Len(children') = Len(children)
              /\ \A i \in DOMAIN children :
                    /\ children'[i].kill = children[i].kill
                    /\ (children'[i].st = "reaped") = (children[i].st = "reaped")
      ]_vars

\* rx.recv() has panicked on the disconnected channel while the current
\* child was running
C19_Witness ==
    /\ op = "recv_panic"
    /\ pc = "panicked"
    /\ proc # 0
    /\ children[proc] = NewChild

\* C20: a step of the drain on a non-empty channel drops the first event,
\* whatever it is, and stays in the drain; a step on an empty channel
\* (disconnected or not) goes to the build; the drain is left in no other
\* way, and with finitely many events sent it is always left.
C20_DrainEndsWhenEmpty ==
    /\ [][ /\ (pc = "drain" /\ op' \in LoopOps /\ chan # <<>>) =>
                  (op' = "drain_one" /\ chan' = Tail(chan) /\ pc' = "drain"
                      /\ builds' = builds /\ recvM' = recvM)
           /\ (pc = "drain" /\ op' \in LoopOps /\ chan = <<>>) =>
                  (op' = "drain_end" /\ pc' = "build")
           /\ (pc = "drain" /\ pc' # "drain") => chan = <<>>
         ]_vars
    /\ ((pc = "drain") ~> (pc = "building"))

\* after the only breaking receive of three events sent, try_recv() has
\* found the channel empty and disconnected and the drain has ended
C20_Witness ==
    /\ op = "drain_end"
    /\ pc = "build"
    /\ closed
    /\ sent = 3
    /\ recvM = 1
    /\ builds = 1

\* the join of a path and a relative component: a separator is added unless
\* the path is empty or ends with one
C12_PathJoin(p, c) ==
    IF p = <<>> \/ p[Len(p)] = "/" THEN p \o c ELSE p \o <<"/">> \o c

\* C12: the path of every spawn attempt is the path join of target_dir (or
\* "target/"), "release" or "debug", and bin.
C12_ExeIsPathJoin ==
    (op \in SpawnOps) =>
        exe = C12_PathJoin(
                C12_PathJoin(IF bnr.target_dir # <<>> THEN bnr.target_dir[1]
                                                       ELSE <<"target", "/">>,
                             IF bnr.release THEN <<"release">> ELSE <<"debug">>),
                <<bnr.bin>>)

\* C15: from the end of a build cycle at which a breaking event was
\* buffered, and as long as no further event is sent, at most one more build
\* is started; the loop is not back at rx.recv() with an empty channel
\* before that build, and when it is back at rx.recv() after that build the
\* channel is empty.
C15_BufferedEventsOneCycle ==
    (mark # 0) =>
        /\ builds \in {mark, mark + 1}
        /\ (pc = "recv" /\ chan = <<>>) => builds = mark + 1
        /\ (pc = "recv" /\ builds = mark + 1) => chan = <<>>

\* three events were buffered when the first build cycle ended; one more
\* build ran and the loop is blocked in rx.recv() on the empty channel
C15_Witness ==
    /\ mark = 1
    /\ builds = 2
    /\ sent = 3
    /\ pc = "recv"
    /\ chan = <<>>
    /\ ~closed

\* the options in the order of their declaration in struct BuildNRun
C17_Declared ==
    <<"watch", "quiet", "bin", "package", "jobs", "release", "profile", "features",
      "all_features", "no_default_features", "target", "target_dir", "manifest_path",
      "message_format_path", "verbose", "color", "frozen", "locked", "offline", "args">>

\* the option that a token of the argument vector belongs to
C17_OptionOf(t) ==
    CASE t = <<"--quiet">> -> "quiet"
      [] t[1] = "--bin=" -> "bin"
      [] t[1] = "--package=" -> "package"
      [] t = <<"--jobs">> -> "jobs"
      [] t = <<"--release">> -> "release"
      [] t[1] = "--profile=" -> "profile"
      [] t[1] = "--features=" -> "features"
      [] t = <<"--all-features">> -> "all_features"
      [] t = <<"--no-default-features">> -> "no_default_features"
      [] t[1] = "--target=" -> "target"
      [] t[1] = "--manifest-path=" -> "manifest_path"
      [] t[1] = "--message-format-path=" -> "message_format_path"
      [] t = <<"-v">> -> "verbose"
      [] t[1] = "--color=" -> "color"
      [] t = <<"--frozen">> -> "frozen"
      [] t = <<"--locked">> -> "locked"
      [] t = <<"--offline">> -> "offline"
      [] OTHER -> "jobs"

C17_Rank(t) ==
    CHOOSE i \in DOMAIN C17_Declared : C17_Declared[i] = C17_OptionOf(t)

\* the number of tokens of v that belong to option o
C17_Count(v, o) ==
    Cardinality({i \in 2..Len(v) : C17_OptionOf(v[i]) = o})

C17_IsSet(b, o) ==
    IF b[o] \in BOOLEAN THEN b[o] ELSE b[o] # <<>>

\* C17: the vector of every build starts with "build", names the binary in
\* exactly one token, has no token of an option that is not set, one -v per
\* verbosity level and one token per features value, keeps the tokens in
\* the order in which their options are declared, and is the same for every
\* build of a run.
C17_BuildArgsInDeclaredOrder ==
    /\ [](op = "build_start" =>
            /\ args[1] = <<"build">>
            /\ Cardinality({i \in DOMAIN args : bnr.bin \in {args[i][k] : k \in DOMAIN args[i]}}) = 1
            /\ \E i \in DOMAIN args : args[i] = <<"--bin=", bnr.bin>>
            /\ \A o \in {"quiet", "release", "all_features", "no_default_features",
                           "frozen", "locked", "offline"} :
                    C17_Count(args, o) = (IF bnr[o] THEN 1 ELSE 0)
            /\ \A o \in {"package", "profile", "target", "manifest_path", "color"} :
                    C17_Count(args, o) = Len(bnr[o])
            /\ C17_Count(args, "jobs") = 2 * Len(bnr.jobs)
            /\ C17_Count(args, "features") = Len(bnr.features)
            /\ C17_Count(args, "message_format_path") = Len(bnr.message_format_path)
            /\ C17_Count(args, "verbose") = bnr.verbose
            /\ \A i \in 2..Len(args) : \A j \in 2..Len(args) :
                    i < j => C17_Rank(args[i]) <= C17_Rank(args[j]))
    /\ [][(op' = "build_start" /\ builds >= 1) => args' = args]_vars

\* the second build of a run with two options set has started
C17_Witness ==
    /\ op = "build_start"
    /\ builds = 2
    /\ bnr.jobs = <<16>>
    /\ bnr.features = <<"a", "b">>
    /\ Len(args) = 6
====
